---- MODULE Spec2Model ----
(***************************************************************************)
(* Model of PDFOutlineExtractor (1A.py): title resolution, line            *)
(* reconstruction, style classification and outline assembly.              *)
(* Text is a sequence of one-character strings; font sizes are in tenths   *)
(* of a point so that round() is a real conversion; page coordinates are   *)
(* integers.                                                               *)
(***************************************************************************)
EXTENDS Integers, Sequences, FiniteSets, TLC

VARIABLES doc, pc, title, all_lines, style_to_level, outline, idx, src, called

vars == <<doc, pc, title, all_lines, style_to_level, outline, idx, src, called>>

----------------------------------------------------------------------------
(* Characters and the str / re primitives the code uses.                   *)

Whitespace == {" "}

UpperSeq == <<"A","B","C","D","E","F","G","H","I","J","K","L","M","N","O","P","Q","R","S","T","U","V","W","X","Y","Z">>

LowerSeq == <<"a","b","c","d","e","f","g","h","i","j","k","l","m","n","o","p","q","r","s","t","u","v","w","x","y","z">>

Letters == {UpperSeq[k] : k \in 1..26} \cup {LowerSeq[k] : k \in 1..26}

Digits == {"0","1","2","3","4","5","6","7","8","9"}

lower_char(c) ==
  IF \E k \in 1..26 : UpperSeq[k] = c
  THEN LowerSeq[CHOOSE k \in 1..26 : UpperSeq[k] = c]
  ELSE c

lower(s) == [k \in 1..Len(s) |-> lower_char(s[k])]

non_space(s) == {k \in 1..Len(s) : s[k] \notin Whitespace}

min_of(S) == CHOOSE x \in S : \A y \in S : x <= y

max_of(S) == CHOOSE x \in S : \A y \in S : y <= x

lstrip(s) == IF non_space(s) = {} THEN <<>> ELSE SubSeq(s, min_of(non_space(s)), Len(s))

rstrip(s) == IF non_space(s) = {} THEN <<>> ELSE SubSeq(s, 1, max_of(non_space(s)))

strip(s) == rstrip(lstrip(s))

RECURSIVE sorted_asc(_)
sorted_asc(S) ==
  IF S = {} THEN <<>>
  ELSE <<min_of(S)>> \o sorted_asc(S \ {min_of(S)})

(* str.split(): the maximal runs of non-whitespace characters, in order *)
word_start(s, k) == s[k] \notin Whitespace /\ (k = 1 \/ s[k - 1] \in Whitespace)

word_end(s, k) ==
  CHOOSE j \in k..Len(s) :
    /\ j = Len(s) \/ s[j + 1] \in Whitespace
    /\ \A i \in k..j : s[i] \notin Whitespace

split(s) ==
  LET starts == SelectSeq([k \in 1..Len(s) |-> k], LAMBDA k : word_start(s, k))
  IN [w \in 1..Len(starts) |-> SubSeq(s, starts[w], word_end(s, starts[w]))]

RECURSIVE join(_)
join(words) ==
  IF words = <<>> THEN <<>>
  ELSE IF Len(words) = 1 THEN words[1]
  ELSE words[1] \o <<" ">> \o join(Tail(words))

starts_with(p, s, at) ==
  /\ at + Len(p) - 1 <= Len(s)
  /\ \A k \in 1..Len(p) : s[at + k - 1] = p[k]

contains(p, s) == \E at \in 1..(Len(s) + 1) : starts_with(p, s, at)

ends_with(p, s) == Len(p) <= Len(s) /\ starts_with(p, s, Len(s) - Len(p) + 1)

has_letter(s) == \E k \in 1..Len(s) : s[k] \in Letters

round_half_even(n, d) ==
  LET q == n \div d
      r == n % d
  IN IF 2 * r < d THEN q
     ELSE IF 2 * r > d THEN q + 1
     ELSE IF q % 2 = 0 THEN q ELSE q + 1

----------------------------------------------------------------------------
(* Instance attributes set in __init__.                                    *)

page_margin_top == 8

page_margin_bottom == 92

min_heading_length == 3

max_heading_length == 300

title_clip_bottom == 50

y_quantum == 5



bold_markers == {<<"b","o","l","d">>, <<"b","l","a","c","k">>, <<"h","e","a","v","y">>, <<"c","o","n","d","b">>, <<"c","b","i">>}

is_bold_by_name(font_name) == \E x \in bold_markers : contains(x, lower(font_name))

----------------------------------------------------------------------------
(* Page geometry: a raw line is gathered by a clip rectangle when its top  *)
(* edge lies in the rectangle's vertical extent (percent of page height).  *)

in_clip(page, line, top_pct, bottom_pct) ==
  /\ line.y0 * 100 >= page.height * top_pct
  /\ line.y0 * 100 <= page.height * bottom_pct

line_text_of(spans) ==
  LET kept == SelectSeq([k \in 1..Len(spans) |-> strip(spans[k].text)],
                        LAMBDA t : t # <<>>)
  IN strip(join(kept))

RECURSIVE sum_sizes(_)
sum_sizes(spans) == IF spans = <<>> THEN 0 ELSE Head(spans).size + sum_sizes(Tail(spans))

----------------------------------------------------------------------------
(* _extract_title                                                          *)

filename_exts == {<<".","p","d","f">>, <<".","d","o","c">>, <<".","d","o","c","x">>, <<".","p","p","t">>, <<".","p","p","t","x">>, <<".","x","l","s">>, <<".","x","l","s","x">>, <<".","c","d","r">>}

filename_pattern(t) == \E e \in filename_exts : ends_with(e, lower(t))

metadata_title_ok(t) ==
  /\ t # <<>>
  /\ Len(t) > 4
  /\ ~filename_pattern(t)
  /\ ~contains(<<"M","i","c","r","o","s","o","f","t"," ","W","o","r","d">>, t)

title_lines(page) ==
  LET clipped == SelectSeq(page.lines, LAMBDA l : in_clip(page, l, 0, title_clip_bottom))
  IN SelectSeq(clipped,
       LAMBDA l : /\ line_text_of(l.spans) # <<>>
                  /\ has_letter(line_text_of(l.spans))
                  /\ l.spans # <<>>)

avg_size(l) == round_half_even(sum_sizes(l.spans), 10 * Len(l.spans))

extract_title(d) ==
  LET t == strip(d.metadata.title) IN
  IF metadata_title_ok(t) THEN t
  ELSE IF Len(d.pages) = 0 THEN <<>>
  ELSE LET cands == title_lines(d.pages[1]) IN
       IF cands = <<>> THEN <<>>
       ELSE LET max_size == CHOOSE m \in {avg_size(cands[k]) : k \in 1..Len(cands)} :
                              \A k \in 1..Len(cands) : avg_size(cands[k]) <= m
                biggest == SelectSeq(cands, LAMBDA l : avg_size(l) = max_size)
            IN join([k \in 1..Len(biggest) |-> line_text_of(biggest[k].spans)])

----------------------------------------------------------------------------
(* _reconstruct_lines                                                      *)

quantize(y) == round_half_even(y, y_quantum) * y_quantum

RECURSIVE insert_stable(_, _)
insert_stable(sorted, e) ==
  IF sorted = <<>> THEN <<e>>
  ELSE IF sorted[Len(sorted)].x0 <= e.x0 THEN Append(sorted, e)
  ELSE Append(insert_stable(SubSeq(sorted, 1, Len(sorted) - 1), e), sorted[Len(sorted)])

RECURSIVE sort_spans(_)
sort_spans(spans) ==
  IF spans = <<>> THEN <<>>
  ELSE insert_stable(sort_spans(SubSeq(spans, 1, Len(spans) - 1)), spans[Len(spans)])

RECURSIVE bucket_spans(_, _)
bucket_spans(lines, y) ==
  IF lines = <<>> THEN <<>>
  ELSE (IF quantize(Head(lines).y0) = y THEN Head(lines).spans ELSE <<>>)
       \o bucket_spans(Tail(lines), y)

style_of(span) == <<round_half_even(span.size, 10), is_bold_by_name(span.font)>>

RECURSIVE lines_of_buckets(_, _, _)
lines_of_buckets(clipped, ys, page_num) ==
  IF ys = <<>> THEN <<>>
  ELSE LET spans == sort_spans(bucket_spans(clipped, Head(ys)))
           rest == lines_of_buckets(clipped, Tail(ys), page_num)
       IN IF spans = <<>> \/ line_text_of(spans) = <<>> THEN rest
          ELSE <<[text |-> line_text_of(spans),
                  style |-> style_of(spans[1]),
                  page_num |-> page_num]>> \o rest

lines_on_page(page, page_num) ==
  LET clipped == SelectSeq(page.lines,
                   LAMBDA l : in_clip(page, l, page_margin_top, page_margin_bottom))
      ys == sorted_asc({quantize(clipped[k].y0) : k \in 1..Len(clipped)})
  IN lines_of_buckets(clipped, ys, page_num)

RECURSIVE reconstruct_from(_, _)
reconstruct_from(d, p) ==
  IF p > Len(d.pages) THEN <<>>
  ELSE lines_on_page(d.pages[p], p) \o reconstruct_from(d, p + 1)

reconstruct_lines(d) == reconstruct_from(d, 1)

----------------------------------------------------------------------------
(* _classify_styles                                                        *)

EmptyMap == [s \in {} |-> "H1"]

level_map == <<"H1", "H2", "H3", "H4">>

body_max_avg_words == 20

heading_max_avg_words == 15

guard_ratio_pct == 115

(* keys of style_profiles in insertion (first-seen) order *)
RECURSIVE style_keys(_, _)
style_keys(lines, seen) ==
  IF lines = <<>> THEN seen
  ELSE style_keys(Tail(lines),
         IF \E k \in 1..Len(seen) : seen[k] = Head(lines).style
         THEN seen ELSE Append(seen, Head(lines).style))

RECURSIVE profile_count(_, _)
profile_count(lines, s) ==
  IF lines = <<>> THEN 0
  ELSE (IF Head(lines).style = s THEN 1 ELSE 0) + profile_count(Tail(lines), s)

RECURSIVE profile_total_words(_, _)
profile_total_words(lines, s) ==
  IF lines = <<>> THEN 0
  ELSE (IF Head(lines).style = s THEN Len(split(Head(lines).text)) ELSE 0)
       + profile_total_words(Tail(lines), s)

(* avg_words > n, with avg_words = total_words / count *)
avg_words_gt(lines, s, n) == profile_total_words(lines, s) > n * profile_count(lines, s)

non_heading_styles(lines) ==
  {s \in {lines[k].style : k \in 1..Len(lines)} : avg_words_gt(lines, s, body_max_avg_words)}

(* Counter(...).most_common(1): the first key, in insertion order, of maximal count *)
RECURSIVE most_common(_, _, _)
most_common(lines, keys, best) ==
  IF keys = <<>> THEN best
  ELSE most_common(lines, Tail(keys),
         IF best = <<>> \/ profile_count(lines, Head(keys)) > profile_count(lines, best[1])
         THEN <<Head(keys)>> ELSE best)

body_eligible(lines) ==
  LET excluded == non_heading_styles(lines)
  IN SelectSeq(style_keys(lines, <<>>), LAMBDA s : s \notin excluded)

(* <<style>> or <<>> when no style is eligible (the IndexError branch) *)
body_style_candidate(lines) == most_common(lines, body_eligible(lines), <<>>)

is_candidate(style, body) ==
  \/ style[1] > body[1]
  \/ (style[1] = body[1] /\ style[2] /\ ~body[2])

heading_candidates(lines, body) ==
  SelectSeq(style_keys(lines, <<>>),
    LAMBDA s : is_candidate(s, body) /\ ~avg_words_gt(lines, s, heading_max_avg_words))

(* variants of the guard: without the ratio test, and with ratio 1 *)
guard_rejects_no_ratio(cands, body) == cands = <<>>

guard_rejects_ratio_one(cands, body) ==
  \/ cands = <<>>
  \/ max_of({cands[k][1] : k \in 1..Len(cands)}) * 100 < body[1] * 100

guard_rejects(cands, body) ==
  \/ cands = <<>>
  \/ max_of({cands[k][1] : k \in 1..Len(cands)}) * 100 < body[1] * guard_ratio_pct

(* size_groups: insertion-ordered dict size -> list of styles, filled in the *)
(* iteration order of set(heading_candidates)                                *)
RECURSIVE size_groups(_, _)
size_groups(order, groups) ==
  IF order = <<>> THEN groups
  ELSE LET s == Head(order)
           at == {k \in 1..Len(groups) : groups[k].size = s[1]}
       IN size_groups(Tail(order),
            IF at = {}
            THEN Append(groups, [size |-> s[1], styles |-> <<s>>])
            ELSE [groups EXCEPT ![CHOOSE k \in at : TRUE].styles = Append(@, s)])

RECURSIVE sorted_desc(_)
sorted_desc(S) ==
  IF S = {} THEN <<>>
  ELSE LET m == max_of(S) IN <<m>> \o sorted_desc(S \ {m})

(* variants of the size ranking: ascending, and dict insertion order *)
RECURSIVE reversed(_)
reversed(q) == IF q = <<>> THEN <<>> ELSE Append(reversed(Tail(q)), Head(q))

sorted_sizes_ascending(groups) == reversed(sorted_desc({groups[k].size : k \in 1..Len(groups)}))

sorted_sizes_insertion_order(groups) == [k \in 1..Len(groups) |-> groups[k].size]

sorted_sizes(groups) == sorted_desc({groups[k].size : k \in 1..Len(groups)})

group_of(groups, size) == groups[CHOOSE k \in 1..Len(groups) : groups[k].size = size].styles

(* sorted(group, key=bold, reverse=True): stable, bold styles first *)
sorted_styles_in_group(styles) ==
  SelectSeq(styles, LAMBDA s : s[2]) \o SelectSeq(styles, LAMBDA s : ~s[2])

(* variant of the level assignment: sizes past the fourth are given H4 *)
RECURSIVE assign_levels_demote(_, _, _, _)
assign_levels_demote(groups, sizes, i, map) ==
  IF i > Len(sizes) THEN map
  ELSE assign_levels_demote(groups, sizes, i + 1,
         LET ss == sorted_styles_in_group(group_of(groups, sizes[i]))
             lv == IF i <= Len(level_map) THEN level_map[i] ELSE level_map[Len(level_map)]
         IN [s \in DOMAIN map \cup {ss[k] : k \in 1..Len(ss)} |->
               IF \E k \in 1..Len(ss) : ss[k] = s THEN lv ELSE map[s]])

RECURSIVE assign_levels(_, _, _, _)
assign_levels(groups, sizes, i, map) ==
  IF i > Len(sizes) THEN map
  ELSE assign_levels(groups, sizes, i + 1,
         IF i <= Len(level_map)
         THEN LET ss == sorted_styles_in_group(group_of(groups, sizes[i]))
              IN [s \in DOMAIN map \cup {ss[k] : k \in 1..Len(ss)} |->
                    IF \E k \in 1..Len(ss) : ss[k] = s THEN level_map[i] ELSE map[s]]
         ELSE map)

style_map(cands_order) ==
  LET groups == size_groups(cands_order, <<>>)
  IN assign_levels(groups, sorted_sizes(groups), 1, EmptyMap)

(* all iteration orders of a set: sequences that enumerate it without repetition *)
RECURSIVE orders_of(_)
orders_of(S) ==
  IF S = {} THEN {<<>>}
  ELSE UNION {{<<x>> \o o : o \in orders_of(S \ {x})} : x \in S}

(* the set of style->level maps _classify_styles may return; one per iteration *)
(* order of set(heading_candidates)                                            *)
classify_styles(lines) ==
  IF lines = <<>> THEN {EmptyMap}
  ELSE LET b == body_style_candidate(lines) IN
       IF b = <<>> THEN {EmptyMap}
       ELSE LET cands == heading_candidates(lines, b[1]) IN
            IF guard_rejects(cands, b[1]) THEN {EmptyMap}
            ELSE {style_map(o) : o \in orders_of({cands[k] : k \in 1..Len(cands)})}

----------------------------------------------------------------------------
(* extract_outline: patterns                                               *)

(* re.compile(r'https?://\S+').match *)
url_pattern(s) ==
  \E p \in {<<"h","t","t","p",":","/","/">>, <<"h","t","t","p","s",":","/","/">>} :
    /\ starts_with(p, s, 1)
    /\ Len(s) > Len(p)
    /\ s[Len(p) + 1] \notin Whitespace

toc_dot_run == 4

(* re.compile(r'\.{4,}').search *)
toc_pattern(s) ==
  \E at \in 1..Len(s) :
    /\ at + toc_dot_run - 1 <= Len(s)
    /\ \A k \in 0..(toc_dot_run - 1) : s[at + k] = "."

RECURSIVE skip_spaces(_, _)
skip_spaces(s, k) == IF k <= Len(s) /\ s[k] \in Whitespace THEN skip_spaces(s, k + 1) ELSE k

RECURSIVE skip_digits(_, _)
skip_digits(s, k) == IF k <= Len(s) /\ s[k] \in Digits THEN skip_digits(s, k + 1) ELSE k

(* greedy (\.\d+)* from position k: <<end position, number of groups taken>> *)
RECURSIVE skip_dot_groups(_, _, _)
skip_dot_groups(s, k, n) ==
  IF k + 1 <= Len(s) /\ s[k] = "." /\ s[k + 1] \in Digits
  THEN skip_dot_groups(s, skip_digits(s, k + 1), n + 1)
  ELSE <<k, n>>

(* list_item_pattern.match: optional spaces, digits, greedy dot-digit      *)
(* groups, then at least one space.  <<>> when there is no match, else     *)
(* <<group(1)>>.                                                           *)
list_item_pattern(s) ==
  LET a == skip_spaces(s, 1)
      b == skip_digits(s, a)
      e == skip_dot_groups(s, b, 0)
  IN IF b > a /\ e[1] <= Len(s) /\ s[e[1]] \in Whitespace
     THEN <<SubSeq(s, a, e[1] - 1)>>
     ELSE <<>>

count_dots(s) == Cardinality({k \in 1..Len(s) : s[k] = "."})

numbering_level(num_str) ==
  LET dot_count == count_dots(num_str) IN
  IF dot_count = 0 THEN "H1"
  ELSE IF dot_count = 1 THEN "H2"
  ELSE IF dot_count = 2 THEN "H3"
  ELSE "H4"

----------------------------------------------------------------------------
(* extract_outline: native bookmark fast path                              *)

toc_min_level == 1

toc_max_level == 4

level_name(n) == level_map[n]

(* variant of the fast path: bookmark text is not trimmed *)
toc_outline_untrimmed(toc) ==
  LET kept == SelectSeq(toc, LAMBDA b : toc_min_level <= b.level /\ b.level <= toc_max_level)
      made == [k \in 1..Len(kept) |->
                 [level |-> level_name(kept[k].level),
                  text |-> kept[k].text,
                  page |-> kept[k].page]]
  IN SelectSeq(made, LAMBDA h : has_letter(h.text))

toc_outline(toc) ==
  LET kept == SelectSeq(toc, LAMBDA b : toc_min_level <= b.level /\ b.level <= toc_max_level)
      made == [k \in 1..Len(kept) |->
                 [level |-> level_name(kept[k].level),
                  text |-> strip(kept[k].text),
                  page |-> kept[k].page]]
  IN SelectSeq(made, LAMBDA h : has_letter(h.text))

----------------------------------------------------------------------------
(* extract_outline: one iteration of the loop over all_lines.              *)
(* Result: <<>> when nothing is appended, else <<entry>>.                  *)

clean_text_of(line_text) == join(split(line_text))

(* variants of the loop body: no duplicate check, no numbering override,   *)
(* no URL filter, title suppression after the numbering override           *)
process_line_no_dedup(line, ttl, map, out) ==
  LET line_text == line.text IN
  IF ~(min_heading_length <= Len(line_text) /\ Len(line_text) <= max_heading_length)
     \/ url_pattern(line_text)
  THEN <<>>
  ELSE IF toc_pattern(line_text) THEN <<>>
  ELSE IF line.style \notin DOMAIN map THEN <<>>
  ELSE LET level == map[line.style]
           clean_text == clean_text_of(line_text)
       IN IF level = "H1" /\ line.page_num = 1 /\ clean_text = ttl THEN <<>>
          ELSE LET match == list_item_pattern(clean_text)
                   refined == IF match # <<>> THEN numbering_level(strip(match[1])) ELSE level
               IN IF FALSE
                  THEN <<>>
                  ELSE <<[level |-> refined, text |-> clean_text, page |-> line.page_num]>>

process_line_no_override(line, ttl, map, out) ==
  LET line_text == line.text IN
  IF ~(min_heading_length <= Len(line_text) /\ Len(line_text) <= max_heading_length)
     \/ url_pattern(line_text)
  THEN <<>>
  ELSE IF toc_pattern(line_text) THEN <<>>
  ELSE IF line.style \notin DOMAIN map THEN <<>>
  ELSE LET level == map[line.style]
           clean_text == clean_text_of(line_text)
       IN IF level = "H1" /\ line.page_num = 1 /\ clean_text = ttl THEN <<>>
          ELSE LET match == list_item_pattern(clean_text)
                   refined == level
               IN IF \E k \in 1..Len(out) :
                       out[k].text = clean_text /\ out[k].page = line.page_num
                  THEN <<>>
                  ELSE <<[level |-> refined, text |-> clean_text, page |-> line.page_num]>>

process_line_no_url_filter(line, ttl, map, out) ==
  LET line_text == line.text IN
  IF ~(min_heading_length <= Len(line_text) /\ Len(line_text) <= max_heading_length)
  THEN <<>>
  ELSE IF toc_pattern(line_text) THEN <<>>
  ELSE IF line.style \notin DOMAIN map THEN <<>>
  ELSE LET level == map[line.style]
           clean_text == clean_text_of(line_text)
       IN IF level = "H1" /\ line.page_num = 1 /\ clean_text = ttl THEN <<>>
          ELSE LET match == list_item_pattern(clean_text)
                   refined == IF match # <<>> THEN numbering_level(strip(match[1])) ELSE level
               IN IF \E k \in 1..Len(out) :
                       out[k].text = clean_text /\ out[k].page = line.page_num
                  THEN <<>>
                  ELSE <<[level |-> refined, text |-> clean_text, page |-> line.page_num]>>

process_line_suppress_after(line, ttl, map, out) ==
  LET line_text == line.text IN
  IF ~(min_heading_length <= Len(line_text) /\ Len(line_text) <= max_heading_length)
     \/ url_pattern(line_text)
  THEN <<>>
  ELSE IF toc_pattern(line_text) THEN <<>>
  ELSE IF line.style \notin DOMAIN map THEN <<>>
  ELSE LET level == map[line.style]
           clean_text == clean_text_of(line_text)
           match == list_item_pattern(clean_text)
           refined == IF match # <<>> THEN numbering_level(strip(match[1])) ELSE level
       IN IF refined = "H1" /\ line.page_num = 1 /\ clean_text = ttl THEN <<>>
          ELSE IF \E k \in 1..Len(out) :
                       out[k].text = clean_text /\ out[k].page = line.page_num
                  THEN <<>>
                  ELSE <<[level |-> refined, text |-> clean_text, page |-> line.page_num]>>

process_line(line, ttl, map, out) ==
  LET line_text == line.text IN
  IF ~(min_heading_length <= Len(line_text) /\ Len(line_text) <= max_heading_length)
     \/ url_pattern(line_text)
  THEN <<>>
  ELSE IF toc_pattern(line_text) THEN <<>>
  ELSE IF line.style \notin DOMAIN map THEN <<>>
  ELSE LET level == map[line.style]
           clean_text == clean_text_of(line_text)
       IN IF level = "H1" /\ line.page_num = 1 /\ clean_text = ttl THEN <<>>
          ELSE LET match == list_item_pattern(clean_text)
                   refined == IF match # <<>> THEN numbering_level(strip(match[1])) ELSE level
               IN IF \E k \in 1..Len(out) :
                       out[k].text = clean_text /\ out[k].page = line.page_num
                  THEN <<>>
                  ELSE <<[level |-> refined, text |-> clean_text, page |-> line.page_num]>>

----------------------------------------------------------------------------
(* The run of extract_outline as a state machine.                          *)

ExtractTitle ==
  /\ pc = "title"
  /\ title' = extract_title(doc)
  /\ called' = called \cup {"_extract_title"}
  /\ pc' = "toc"
  /\ UNCHANGED <<doc, all_lines, style_to_level, outline, idx, src>>

GetToc ==
  /\ pc = "toc"
  /\ called' = called \cup {"get_toc"}
  /\ IF doc.toc # <<>> /\ toc_outline(doc.toc) # <<>>
     THEN /\ outline' = toc_outline(doc.toc)
          /\ pc' = "done"
     ELSE /\ outline' = outline
          /\ pc' = "reconstruct"
  /\ UNCHANGED <<doc, title, all_lines, style_to_level, idx, src>>

ReconstructLines ==
  /\ pc = "reconstruct"
  /\ all_lines' = reconstruct_lines(doc)
  /\ called' = called \cup {"_reconstruct_lines"}
  /\ pc' = "classify"
  /\ UNCHANGED <<doc, title, style_to_level, outline, idx, src>>

ClassifyStyles ==
  /\ pc = "classify"
  /\ \E m \in classify_styles(all_lines) : style_to_level' = m
  /\ called' = called \cup {"_classify_styles"}
  /\ pc' = "check"
  /\ UNCHANGED <<doc, title, all_lines, outline, idx, src>>

CheckStyles ==
  /\ pc = "check"
  /\ IF DOMAIN style_to_level = {}
     THEN /\ outline' = <<>>
          /\ pc' = "done"
     ELSE /\ outline' = <<>>
          /\ pc' = "loop"
  /\ idx' = 1
  /\ UNCHANGED <<doc, title, all_lines, style_to_level, src, called>>

ProcessLine ==
  /\ pc = "loop"
  /\ idx <= Len(all_lines)
  /\ LET r == process_line(all_lines[idx], title, style_to_level, outline) IN
       /\ outline' = outline \o r
       /\ src' = IF r = <<>> THEN src ELSE Append(src, idx)
  /\ idx' = idx + 1
  /\ called' = called \cup {"loop"}
  /\ UNCHANGED <<doc, pc, title, all_lines, style_to_level>>

Return ==
  /\ pc = "loop"
  /\ idx > Len(all_lines)
  /\ pc' = "done"
  /\ UNCHANGED <<doc, title, all_lines, style_to_level, outline, idx, src, called>>

Next ==
  \/ ExtractTitle
  \/ GetToc
  \/ ReconstructLines
  \/ ClassifyStyles
  \/ CheckStyles
  \/ ProcessLine
  \/ Return

InitRun(d) ==
  /\ doc = d
  /\ pc = "title"
  /\ title = <<>>
  /\ all_lines = <<>>
  /\ style_to_level = EmptyMap
  /\ outline = <<>>
  /\ idx = 1
  /\ src = <<>>
  /\ called = {}

----------------------------------------------------------------------------
(* Input documents.  A page is 800 units high; a span records its text,    *)
(* its font size in tenths of a point, its font name and its left edge.    *)

MaxToc == 2

MaxFree == 2

MaxStyleFree == 3

MaxBody == 3

Regular == <<"A","r","i","a","l">>

Bold == <<"A","r","i","a","l","-","B","o","l","d","M","T">>

Heavy == <<"F","u","t","u","r","a","-","H","e","a","v","y">>

mk_span(text, size, font, x0) == [text |-> text, size |-> size, font |-> font, x0 |-> x0]

mk_line(y0, text, size, font) == [y0 |-> y0, spans |-> <<mk_span(text, size, font, 72)>>]

mk_page(lines) == [height |-> 800, width |-> 600, lines |-> lines]

mk_doc(meta_title, toc, pages) ==
  [metadata |-> [title |-> meta_title], toc |-> toc, pages |-> pages]

seqs_up_to(S, n) == UNION {[1..k -> S] : k \in 0..n}

(* free lines f[k] = [text, size, font, page] laid out top-down, 40 units apart *)
free_lines(f, page) ==
  LET ks == SelectSeq([k \in 1..Len(f) |-> k], LAMBDA k : f[k].page = page)
  IN [j \in 1..Len(ks) |-> mk_line(100 + 40 * ks[j], f[ks[j]].text, f[ks[j]].size, f[ks[j]].font)]

(* a body line drawn as two raw lines one unit apart, right part first *)
split_body_line(y0) ==
  <<[y0 |-> y0 + 1, spans |-> <<mk_span(<<"t","e","x","t"," ","h","e","r","e"," ">>, 100, Regular, 300)>>],
    [y0 |-> y0, spans |-> <<mk_span(<<" ","p","l","a","i","n">>, 100, Regular, 72),
                            mk_span(<<>>, 100, Regular, 100),
                            mk_span(<<"b","o","d","y">>, 104, Regular, 120)>>]>>

(* ---- documents with a native bookmark list ---- *)

TocTexts == {<<" ","I","n","t","r","o"," ">>, <<"2","0","2","4">>, <<"S","c","o","p","e">>}

Bookmarks == [level : 0..5, text : TocTexts, page : {1, 2}]

toc_pages ==
  <<mk_page(<<mk_line(100, <<"I","n","t","r","o">>, 180, Bold)>> \o split_body_line(300)
            \o split_body_line(340))>>

TocDocs == {mk_doc(<<"A","n","n","u","a","l"," ","R","e","p","o","r","t">>, t, toc_pages) : t \in seqs_up_to(Bookmarks, MaxToc)}

(* ---- documents whose heading lines vary in text ---- *)

heur_kind(t, size, font, page) == [text |-> t, size |-> size, font |-> font, page |-> page]

HeurKinds ==
  {heur_kind(<<"1"," ","O","v","e","r","v","i","e","w">>, 180, Bold, 1),
   heur_kind(<<"1"," ","O","v","e","r","v","i","e","w">>, 140, Regular, 1),
   heur_kind(<<"1"," ","O","v","e","r","v","i","e","w">>, 180, Bold, 2),
   heur_kind(<<"1",".","2"," ","B","a","c","k","g","r","o","u","n","d">>, 180, Bold, 1),
   heur_kind(<<"1",".","2"," ","B","a","c","k","g","r","o","u","n","d">>, 120, Regular, 1),
   heur_kind(<<"1",".","2",".","3"," ","D","e","t","a","i","l">>, 180, Bold, 1),
   heur_kind(<<"1",".","2",".","3",".","4"," ","N","o","t","e","s">>, 140, Regular, 1),
   heur_kind(<<"h","t","t","p","s",":","/","/","e","x","a","m","p","l","e",".","c","o","m","/","x">>, 180, Bold, 1),
   heur_kind(<<"h","t","t","p","s",":","/","/","e","x","a","m","p","l","e",".","c","o","m","/","x">>, 140, Regular, 1),
   heur_kind(<<".",".",".",".",".",".">>, 180, Bold, 1),
   heur_kind(<<".",".",".",".",".",".">>, 120, Regular, 1),
   heur_kind(<<"A","l","p","h","a">>, 180, Bold, 1),
   heur_kind(<<"A","l","p","h","a">>, 140, Regular, 1),
   heur_kind(<<"A","l","p","h","a">>, 180, Bold, 2),
   heur_kind(<<"S","c","o","p","e"," "," ","a","n","d"," ","a","i","m","s">>, 140, Regular, 1),
   heur_kind(<<"a","b">>, 180, Bold, 1)}

heur_pages(f) ==
  <<mk_page(free_lines(f, 1) \o split_body_line(600)),
    mk_page(free_lines(f, 2)
            \o <<mk_line(400, <<"A","l","p","h","a">>, 180, Bold),
                 mk_line(440, <<"B","e","t","a">>, 140, Regular),
                 mk_line(480, <<"G","a","m","m","a">>, 120, Regular)>>
            \o split_body_line(520) \o split_body_line(560))>>

HeurDocs ==
  {mk_doc(m, <<>>, heur_pages(f)) :
     m \in {<<>>, <<"1"," ","O","v","e","r","v","i","e","w">>}, f \in seqs_up_to(HeurKinds, MaxFree)}

InitToc == \E d \in TocDocs : InitRun(d)

InitHeur == \E d \in HeurDocs : InitRun(d)

SpecToc == InitToc /\ [][Next]_vars

SpecHeur == InitHeur /\ [][Next]_vars


(* ---- documents whose lines vary in style ---- *)

wordy(n) == [k \in 1..(2 * n - 1) |-> IF k % 2 = 1 THEN "w" ELSE " "]

StyleKinds ==
  {[size |-> 4, font |-> Regular, words |-> 1],
   [size |-> 4, font |-> Bold, words |-> 1],
   [size |-> 105, font |-> Regular, words |-> 1],
   [size |-> 100, font |-> Heavy, words |-> 1],
   [size |-> 110, font |-> Regular, words |-> 1],
   [size |-> 115, font |-> Regular, words |-> 1],
   [size |-> 105, font |-> Regular, words |-> 21],
   [size |-> 120, font |-> Regular, words |-> 16]}

style_text(kind, k) == IF kind.words = 1 THEN <<"S","e","c">> \o <<LowerSeq[k]>> ELSE wordy(kind.words)

style_lines(f) ==
  [k \in 1..Len(f) |-> mk_line(60 + 40 * k, style_text(f[k], k), f[k].size, f[k].font)]

Ladder ==
  <<mk_line(400, <<"P","a","r","t">>, 200, Regular),
    mk_line(440, <<"C","h","a","p","t","e","r">>, 180, Regular),
    mk_line(480, <<"S","e","c","t","i","o","n">>, 160, Regular)>>

StyleDocs ==
  {mk_doc(<<"S","t","y","l","e"," ","G","u","i","d","e">>, <<>>, <<mk_page(style_lines(f) \o tail)>>) :
     f \in seqs_up_to(StyleKinds, MaxStyleFree), tail \in {<<>>, Ladder}}

(* ---- the synthetic document: body at size 10, one size-18 bold line on  *)
(* page 1, one size-14 line on page 2                                      *)

SynthHead1 ==
  {<<"I","n","t","r","o","d","u","c","t","i","o","n">>, <<"1",".","1"," ","S","c","o","p","e">>, <<"h","t","t","p","s",":","/","/","x",".","y","/","z">>, <<"a","b">>, <<"C","o","n","t","e","n","t","s"," ",".",".",".",".",".">>,
   wordy(16), [k \in 1..(max_heading_length + 1) |-> "x"]}

SynthHead2 == {<<"M","e","t","h","o","d","s">>, <<"2",".","1"," ","M","e","t","h","o","d","s">>, <<"I","n","t","r","o","d","u","c","t","i","o","n">>}

SynthBody == {<<"p","l","a","i","n"," ","b","o","d","y"," ","t","e","x","t">>, wordy(21)}

synth_body_lines(n, text) == [k \in 1..n |-> mk_line(160 + 40 * k, text, 100, Regular)]

SynthDocs ==
  {mk_doc(m, <<>>,
          <<mk_page(<<mk_line(y, h1, 180, Bold)>> \o synth_body_lines(n, b)),
            mk_page(<<mk_line(300, h2, 140, Regular)>>)>>) :
     m \in {<<>>, <<"I","n","t","r","o","d","u","c","t","i","o","n">>, <<"A","n","n","u","a","l"," ","R","e","p","o","r","t">>},
     y \in {20, 100, 700},
     h1 \in SynthHead1, h2 \in SynthHead2,
     n \in 1..MaxBody, b \in SynthBody}

InitStyle == \E d \in StyleDocs : InitRun(d)

InitSynth == \E d \in SynthDocs : InitRun(d)

SpecStyle == InitStyle /\ [][Next]_vars

SpecSynth == InitSynth /\ [][Next]_vars


SpecBoth == (InitToc \/ InitHeur) /\ [][Next]_vars

----------------------------------------------------------------------------
(* extract_outline as a relation: the set of results a run on d may return *)

RECURSIVE run_loop(_, _, _, _, _)
run_loop(lines, k, ttl, map, out) ==
  IF k > Len(lines) THEN out
  ELSE run_loop(lines, k + 1, ttl, map, out \o process_line(lines[k], ttl, map, out))

extract_outline(d) ==
  LET ttl == extract_title(d) IN
  IF d.toc # <<>> /\ toc_outline(d.toc) # <<>>
  THEN {[title |-> ttl, outline |-> toc_outline(d.toc)]}
  ELSE LET lines == reconstruct_lines(d) IN
       {[title |-> ttl,
         outline |-> IF DOMAIN m = {} THEN <<>> ELSE run_loop(lines, 1, ttl, m, <<>>)] :
          m \in classify_styles(lines)}

----------------------------------------------------------------------------
(* Properties.                                                             *)

heuristic_path == "_reconstruct_lines" \in called

style_set(lines) == {lines[k].style : k \in 1..Len(lines)}

same_entry(a, b) == a.text = b.text /\ a.page = b.page

(* C1: when the native bookmark list is non-empty and every bookmark has a  *)
(* level in 1..3 and a text with a letter, the returned outline has one     *)
(* entry per bookmark, in order, with level "H{level}", the text trimmed    *)
(* and the page kept, and no part of the heuristic path runs.               *)
clean_toc(toc) ==
  /\ toc # <<>>
  /\ \A k \in 1..Len(toc) : toc[k].level \in 1..3 /\ has_letter(toc[k].text)

C1_FastPathMirrorsBookmarks ==
  clean_toc(doc.toc) =>
    /\ called \cap {"_reconstruct_lines", "_classify_styles", "loop"} = {}
    /\ pc \in {"title", "toc", "done"}
    /\ pc = "done" =>
         /\ Len(outline) = Len(doc.toc)
         /\ \A k \in 1..Len(doc.toc) :
              outline[k] = [level |-> <<"H1", "H2", "H3">>[doc.toc[k].level],
                            text |-> strip(doc.toc[k].text),
                            page |-> doc.toc[k].page]

C1_Witness ==
  /\ pc = "done"
  /\ clean_toc(doc.toc)
  /\ Len(doc.toc) = 2
  /\ doc.toc[1].level # doc.toc[2].level
  /\ doc.toc[1].text # strip(doc.toc[1].text)
  /\ Len(outline) = 2

(* C2 as stated: in every returned outline, fast path or heuristic path, no *)
(* two entries share (text, page).                                          *)
no_duplicates(out) ==
  \A i, j \in 1..Len(out) : same_entry(out[i], out[j]) => i = j

C2_NoDuplicatesOnAnyPath == pc = "done" => no_duplicates(outline)

(* C2 amended: in every outline built by the heuristic path, no two entries *)
(* share (text, page).                                                      *)
C2_NoDuplicatesOnHeuristicPath == heuristic_path => no_duplicates(outline)

C2_Witness ==
  /\ pc = "done"
  /\ heuristic_path
  /\ \E i \in 1..Len(src) : \E j \in 1..Len(all_lines) :
       /\ src[i] < j
       /\ \A n \in 1..Len(src) : src[n] # j
       /\ all_lines[j].style \in DOMAIN style_to_level
       /\ clean_text_of(all_lines[j].text) = outline[i].text
       /\ all_lines[j].page_num = outline[i].page
       /\ ~(all_lines[j].page_num = 1 /\ outline[i].text = title)

(* C3 as stated: a document without bookmarks whose lines are size-10       *)
(* non-bold body lines, one size-18 bold line on page 1 and one size-14     *)
(* non-bold line on page 2 yields exactly {H1, text, 1}, {H2, text, 2},     *)
(* whatever the body line count, words per line, heading texts, heading     *)
(* position and metadata title.                                             *)
synth_h1(lines) == {k \in 1..Len(lines) : lines[k].style = <<18, TRUE>>}

synth_h2(lines) == {k \in 1..Len(lines) : lines[k].style = <<14, FALSE>>}

synth_body(lines) == {k \in 1..Len(lines) : lines[k].style = <<10, FALSE>>}

is_synthetic ==
  /\ doc.toc = <<>>
  /\ heuristic_path
  /\ Cardinality(synth_h1(all_lines)) = 1
  /\ Cardinality(synth_h2(all_lines)) = 1
  /\ synth_h1(all_lines) \cup synth_h2(all_lines) \cup synth_body(all_lines) = 1..Len(all_lines)
  /\ \A k \in synth_h1(all_lines) : all_lines[k].page_num = 1
  /\ \A k \in synth_h2(all_lines) : all_lines[k].page_num = 2

synth_expected ==
  LET h1 == all_lines[CHOOSE k \in synth_h1(all_lines) : TRUE]
      h2 == all_lines[CHOOSE k \in synth_h2(all_lines) : TRUE]
  IN <<[level |-> "H1", text |-> clean_text_of(h1.text), page |-> 1],
       [level |-> "H2", text |-> clean_text_of(h2.text), page |-> 2]>>

plain_heading(t) ==
  /\ 3 <= Len(t) /\ Len(t) <= 300
  /\ Len(split(t)) <= 15
  /\ ~url_pattern(t)
  /\ ~toc_pattern(t)
  /\ list_item_pattern(clean_text_of(t)) = <<>>

synth_regular ==
  /\ Cardinality(synth_body(all_lines)) >= 2
  /\ \A k \in synth_body(all_lines) : Len(split(all_lines[k].text)) <= 20
  /\ \A k \in synth_h1(all_lines) \cup synth_h2(all_lines) : plain_heading(all_lines[k].text)
  /\ \A k \in synth_h1(all_lines) : clean_text_of(all_lines[k].text) # title

prefix_dots(t) == Cardinality({k \in 1..Len(split(t)[1]) : split(t)[1][k] = "."})

level_of_dots(n) == IF n >= 3 THEN "H4" ELSE <<"H1", "H2", "H3">>[n + 1]

C4_NumberingDecidesLevel ==
  heuristic_path =>
    \A k \in 1..Len(outline) :
      /\ list_item_pattern(outline[k].text) # <<>>
           => outline[k].level = level_of_dots(prefix_dots(outline[k].text))
      /\ outline[k].text = <<"1",".","2"," ","B","a","c","k","g","r","o","u","n","d">> => outline[k].level = "H2"

C4_Witness ==
  /\ pc = "done"
  /\ \E k \in 1..Len(outline) :
       /\ outline[k].text = <<"1",".","2"," ","B","a","c","k","g","r","o","u","n","d">>
       /\ outline[k].level = "H2"
       /\ style_to_level[all_lines[src[k]].style] = "H3"

(* C5: with no usable bookmarks, when the style profile has no heading      *)
(* candidate or its largest candidate size is below 1.15 times the body     *)
(* size (in particular when all lines share one style), the run returns an  *)
(* empty outline with the resolved title and emits no line.                 *)
c5_candidates(lines, b) ==
  {s \in style_set(lines) : is_candidate(s, b) /\ ~avg_words_gt(lines, s, 15)}

no_typographic_signal(lines) ==
  LET b == body_style_candidate(lines) IN
  \/ b = <<>>
  \/ c5_candidates(lines, b[1]) = {}
  \/ \A s \in c5_candidates(lines, b[1]) : s[1] * 100 < b[1][1] * 115

uniform_style(lines) == Cardinality(style_set(lines)) <= 1

C5_GuardGivesEmptyOutline ==
  (heuristic_path /\ pc = "done"
     /\ (uniform_style(all_lines) \/ no_typographic_signal(all_lines))) =>
    /\ outline = <<>>
    /\ src = <<>>
    /\ "loop" \notin called
    /\ title = extract_title(doc)

C5_Witness ==
  /\ pc = "done"
  /\ heuristic_path
  /\ Len(all_lines) >= 2
  /\ uniform_style(all_lines)
  /\ outline = <<>>
  /\ title # <<>>

(* C6: on the heuristic path no entry is emitted for a line that is a bare  *)
(* URL or that contains a run of 4 or more dots, whatever its style.        *)
C6_NoUrlOrLeaderLines ==
  heuristic_path =>
    /\ \A k \in 1..Len(src) :
         /\ ~url_pattern(all_lines[src[k]].text)
         /\ ~toc_pattern(all_lines[src[k]].text)
    /\ \A k \in 1..Len(outline) :
         outline[k].text \notin {<<"h","t","t","p","s",":","/","/","e","x","a","m","p","l","e",".","c","o","m","/","x">>, <<".",".",".",".",".",".">>}

C6_Witness ==
  /\ pc = "done"
  /\ \E i, j \in 1..Len(all_lines) :
       /\ all_lines[i].text = <<"h","t","t","p","s",":","/","/","e","x","a","m","p","l","e",".","c","o","m","/","x">>
       /\ all_lines[j].text = <<".",".",".",".",".",".">>
       /\ all_lines[i].style \in DOMAIN style_to_level
       /\ all_lines[j].style \in DOMAIN style_to_level
       /\ \A k \in 1..Len(src) : src[k] \notin {i, j}

(* C7: the result is a function of the input document: every iteration      *)
(* order of the set of heading-candidate styles gives the same style map    *)
(* and the same title and outline, and the body style is the first-seen     *)
(* style among the body-eligible styles of maximal count.                   *)
first_seen(lines, s) == min_of({k \in 1..Len(lines) : lines[k].style = s})

occurrences(lines, s) == Cardinality({k \in 1..Len(lines) : lines[k].style = s})

eligible_styles(lines) ==
  {s \in style_set(lines) : profile_total_words(lines, s) <= 20 * occurrences(lines, s)}

C7_Deterministic ==
  /\ pc = "check" =>
       /\ classify_styles(all_lines) = {style_to_level}
       /\ \A b \in eligible_styles(all_lines) :
            (\A s \in eligible_styles(all_lines) :
               \/ occurrences(all_lines, s) < occurrences(all_lines, b)
               \/ /\ occurrences(all_lines, s) = occurrences(all_lines, b)
                  /\ first_seen(all_lines, b) <= first_seen(all_lines, s))
            => body_style_candidate(all_lines) = <<b>>
  /\ (pc = "done" /\ heuristic_path) =>
       /\ title = extract_title(doc)
       /\ outline = IF DOMAIN style_to_level = {} THEN <<>>
                    ELSE run_loop(all_lines, 1, title, style_to_level, <<>>)

C7_Witness ==
  /\ pc = "done"
  /\ Len(outline) >= 2
  /\ LET b == body_style_candidate(all_lines) IN
       /\ b # <<>>
       /\ Len(heading_candidates(all_lines, b[1])) >= 3
       /\ \E s \in eligible_styles(all_lines) :
            s # b[1] /\ occurrences(all_lines, s) = occurrences(all_lines, b[1])

(* C8 as stated: a page-1 line equal to the resolved title is dropped       *)
(* exactly when its level after the numbering override is H1.               *)
passes_filters(line) ==
  /\ 3 <= Len(line.text) /\ Len(line.text) <= 300
  /\ ~url_pattern(line.text)
  /\ ~toc_pattern(line.text)
  /\ line.style \in DOMAIN style_to_level

title_line(k) ==
  /\ k < idx
  /\ passes_filters(all_lines[k])
  /\ all_lines[k].page_num = 1
  /\ clean_text_of(all_lines[k].text) = title
  /\ \A n \in 1..Len(src) :
       src[n] < k => ~same_entry(outline[n], [text |-> title, page |-> 1])

emitted(k) == \E n \in 1..Len(src) : src[n] = k

level_after_override(line) ==
  IF list_item_pattern(clean_text_of(line.text)) # <<>>
  THEN level_of_dots(prefix_dots(clean_text_of(line.text)))
  ELSE style_to_level[line.style]

C8_SuppressionAfterOverride ==
  (heuristic_path /\ pc \in {"loop", "done"}) =>
    \A k \in 1..Len(all_lines) :
      title_line(k) => (~emitted(k) <=> level_after_override(all_lines[k]) = "H1")

(* C8 amended: the title-suppression rule is applied before the numbering   *)
(* override: a page-1 line equal to the resolved title is dropped exactly   *)
(* when the level its style maps to is H1.                                  *)
C8_SuppressionBeforeOverride ==
  (heuristic_path /\ pc \in {"loop", "done"}) =>
    \A k \in 1..Len(all_lines) :
      title_line(k) => (~emitted(k) <=> style_to_level[all_lines[k].style] = "H1")

C8_Witness ==
  /\ pc = "done"
  /\ \E k \in 1..Len(all_lines) :
       /\ title_line(k)
       /\ style_to_level[all_lines[k].style] = "H1"
       /\ level_after_override(all_lines[k]) # "H1"
       /\ ~emitted(k)

(* C9: when the guard passes, the k-th largest distinct candidate size      *)
(* (k = 1..4) maps to Hk, bold and non-bold candidates of one size share a  *)
(* level, candidates of the fifth or a lower size have no entry in the map, *)
(* and no line of such a style is emitted.                                  *)
candidate_set(lines) ==
  LET b == body_style_candidate(lines) IN
  IF b = <<>> THEN {}
  ELSE LET cands == heading_candidates(lines, b[1])
       IN {cands[k] : k \in 1..Len(cands)}

size_rank(cands, s) == 1 + Cardinality({t[1] : t \in {c \in cands : c[1] > s[1]}})

C9_LevelsBySizeRank ==
  (pc \in {"check", "done"} /\ DOMAIN style_to_level # {}) =>
    LET cands == candidate_set(all_lines) IN
    /\ DOMAIN style_to_level \subseteq cands
    /\ \A s \in cands :
         IF size_rank(cands, s) <= 4
         THEN s \in DOMAIN style_to_level
              /\ style_to_level[s] = <<"H1", "H2", "H3", "H4">>[size_rank(cands, s)]
         ELSE s \notin DOMAIN style_to_level
    /\ \A k \in 1..Len(src) :
         /\ all_lines[src[k]].style \in cands
         /\ size_rank(cands, all_lines[src[k]].style) <= 4

C9_Witness ==
  /\ pc = "done"
  /\ Len(outline) >= 4
  /\ LET cands == candidate_set(all_lines) IN
     \E k \in 1..Len(all_lines) :
       /\ all_lines[k].style \in cands
       /\ size_rank(cands, all_lines[k].style) >= 5
       /\ 3 <= Len(all_lines[k].text)
       /\ ~emitted(k)

(* C10: with a non-bold body style of rounded size at least 1, a line in    *)
(* the bold style of the same size is emitted only if some candidate style  *)
(* is strictly larger and at least 1.15 times the body size; when the only  *)
(* candidates are equal-size bold styles the outline is empty.              *)
C10_EqualSizeBoldNeedsLargerHeading ==
  (heuristic_path /\ pc = "done") =>
    LET b == body_style_candidate(all_lines)
        cands == candidate_set(all_lines)
    IN
    (b # <<>> /\ b[1][1] >= 1 /\ ~b[1][2]) =>
      /\ (\E k \in 1..Len(src) : all_lines[src[k]].style = <<b[1][1], TRUE>>)
           => \E s \in cands : s[1] > b[1][1] /\ s[1] * 100 >= b[1][1] * 115
      /\ (cands # {} /\ \A s \in cands : s[1] = b[1][1])
           => outline = <<>> /\ "loop" \notin called

C10_Witness ==
  /\ pc = "done"
  /\ LET b == body_style_candidate(all_lines) IN
       /\ b # <<>>
       /\ b[1][1] >= 1
       /\ candidate_set(all_lines) = {<<b[1][1], TRUE>>}
       /\ outline = <<>>

====
